---- MODULE Spec2Model ----
(***************************************************************************)
(* A model of the medical retrieval assistant: the reasoning loop of       *)
(* app.py, the search pipeline of search.py / app.py and the ingestion of  *)
(* document_processor.py / database.py.                                    *)
(*                                                                         *)
(* Text is modelled character by character: a Python str is a sequence of  *)
(* one-character values.  The three non-ASCII characters the parsing rules *)
(* look at are written "jian" (U+68C0), "suo" (U+7D22) and "fwcolon"       *)
(* (U+FF1A, the full-width colon); each stands for ONE character.  Fixed   *)
(* sentences of the program whose characters are never inspected are       *)
(* written as one value in angle brackets, e.g. "<system_prompt>".         *)
(***************************************************************************)
EXTENDS Integers, Sequences, FiniteSets, TLC

VARIABLES
    \* ---- reasoning loop (app.py 273-391) ----
    pc,               \* "idle" | "loop" | "done" | "crashed"
    session_messages, \* st.session_state.messages
    prompt,           \* the question being handled
    messages,         \* the per-question conversation sent to the model
    step,             \* loop variable of `for step in range(5)`
    final_answer,
    last_action,
    ai_content,
    status,           \* last label given to status.update
    chat_calls,       \* number of ollama.chat calls made for this question
    search_calls,     \* number of search_memory calls made for this question
    first_sent,       \* `messages` as passed to the first ollama.chat call
    \* ---- search (search.py MedicalSearchEngine.search, app.py search_memory) ----
    s_pc,             \* "start" | "recall" | "recalled" | "done"
    impl,             \* "engine" (search.py) | "app" (app.py)
    debug,            \* the debug flag
    query,
    count,            \* the count argument of expand
    expander_out,     \* the outcome of the expander's chat call
    expanded_queries,
    qi,               \* index of the next query variant of the recall loop
    results,          \* the store's answer to the variant handled last
    recall_status,    \* how that variant went: "ok" | "embed_fail" | "query_fail"
    all_documents,
    all_metadatas,
    seen_docs,
    debug_logs,
    scores,           \* the scores the rerank model gave, in recall order
    scored_docs,
    top_k_docs,
    ret,              \* the returned (text, logs)
    \* ---- knowledge store and ingestion (database.py, document_processor.py) ----
    store,            \* the collection: records id, source, chunk_index
    next_id,          \* stands for uuid.uuid4(): the next fresh id
    ops,              \* operations performed so far
    last_op,          \* the operation performed last: kind, filename, document,
                      \* and what get_existing_files returned to it
    i_ret,            \* what it returned
    embed_log,        \* its embed_text calls, in order: chunk index, success
    add_log,          \* its add_chunks calls, in order: chunk indexes, success
    doc_of,           \* per filename, the document of its last ingestion run
    partial,          \* filenames whose process_file run failed after a committed batch
    \* ---- chunker (document_processor.py split_smart, app.py split_markdown_smart) ----
    c_pc,             \* "loop" | "done"
    c_impl,           \* "processor" (document_processor.py) | "app" (app.py)
    c_text,           \* the text argument
    c_size,           \* the chunk_size argument
    c_overlap,        \* the overlap_lines argument (app.py: the 3 of [-3:])
    c_lines,          \* text.split('\n')
    c_li,             \* index of the next line of the loop
    chunks,
    current_chunk,
    current_length,
    current_headers,
    carried           \* carried[k]: how many of the first lines of the k-th chunk
                      \* the buffer had kept from the chunk before

loop_vars == <<pc, session_messages, prompt, messages, step, final_answer,
               last_action, ai_content, status, chat_calls, search_calls,
               first_sent>>

search_vars == <<s_pc, impl, debug, query, count, expander_out, expanded_queries, qi, results,
                 recall_status, all_documents, all_metadatas, seen_docs, debug_logs,
                 scores, scored_docs, top_k_docs, ret>>

ingest_vars == <<store, next_id, ops, last_op, i_ret, embed_log, add_log, doc_of, partial>>

chunk_vars == <<c_pc, c_impl, c_text, c_size, c_overlap, c_lines, c_li, chunks,
                current_chunk, current_length, current_headers, carried>>

vars == <<loop_vars, search_vars, ingest_vars, chunk_vars>>

(***************************************************************************)
(* Python str operations, on sequences of characters.                      *)
(***************************************************************************)
\* the elements of a sequence
Range(q) == {q[i] : i \in 1..Len(q)}

Rep(c, n) == [i \in 1..n |-> c]

\* str.startswith
StartsWith(s, p) == Len(s) >= Len(p) /\ SubSeq(s, 1, Len(p)) = p

\* index of the first occurrence of sub in s, 0 when there is none (str.find + 1)
Find(s, sub) ==
    LET hits == {i \in 1..(Len(s) - Len(sub) + 1) : SubSeq(s, i, i + Len(sub) - 1) = sub}
    IN  IF hits = {} THEN 0 ELSE CHOOSE i \in hits : \A j \in hits : i <= j

\* `sub in s`
Contains(s, sub) == Find(s, sub) # 0

\* str.split(sep): left to right, non-overlapping
RECURSIVE Split(_, _)
Split(s, sep) ==
    LET i == Find(s, sep)
    IN  IF i = 0 THEN <<s>>
        ELSE <<SubSeq(s, 1, i - 1)>> \o Split(SubSeq(s, i + Len(sep), Len(s)), sep)

Last(q) == q[Len(q)]

Whitespace == {" ", "\n", "\t"}

\* str.lstrip(chars) / str.rstrip(chars) / str.strip()
RECURSIVE LStripChars(_, _)
LStripChars(s, chars) ==
    IF s # <<>> /\ Head(s) \in chars THEN LStripChars(Tail(s), chars) ELSE s

RECURSIVE RStripChars(_, _)
RStripChars(s, chars) ==
    IF s # <<>> /\ s[Len(s)] \in chars
    THEN RStripChars(SubSeq(s, 1, Len(s) - 1), chars) ELSE s

Strip(s) == RStripChars(LStripChars(s, Whitespace), Whitespace)

(***************************************************************************)
(* Literals of app.py.                                                     *)
(***************************************************************************)
RetrieveMarker   == <<"jian", "suo", ":">>          \* app.py 324
RetrieveMarkerFW == <<"jian", "suo", "fwcolon">>    \* app.py 324
RetrieveWord     == <<"jian", "suo">>               \* app.py 370
FinalAnswerMarker == <<"F","i","n","a","l"," ","A","n","s","w","e","r">>
ObservationPrefix == <<"O","b","s","e","r","v","a","t","i","o","n",":"," ">>
AlreadySearchedObs == ObservationPrefix \o <<"<already searched, no new information, please summarize>">>
NoConclusionText == <<"<sorry, nothing found, no clear conclusion>">>
SystemPrompt == <<"<system_prompt>">>
Greeting == <<"<greeting>">>

MaxStepsMutant == 5 + 1

MaxSteps == 5          \* range(5)
HistoryWindow == 4     \* messages[-4:]
DirectMinLen == 20     \* len(ai_content) > 20
ForcedMinLen == 10     \* len(ai_content) > 10

Msg(role, content) == [role |-> role, content |-> content]

(***************************************************************************)
(* The reasoning loop: parsing of one model reply (app.py 324-373).        *)
(***************************************************************************)
\* app.py 324: the retrieval directive test
HasRetrieveMarker(ai) == Contains(ai, RetrieveMarker) \/ Contains(ai, RetrieveMarkerFW)

\* app.py 325
Splitter(ai) == IF Contains(ai, RetrieveMarker) THEN RetrieveMarker ELSE RetrieveMarkerFW

\* app.py 326: ai_content.split(splitter)[-1].split("\n")[0].strip()
ExtractKeyword(ai) == Strip(Head(Split(Last(Split(ai, Splitter(ai))), <<"\n">>)))

IsRepeatMutant(keyword, la) == FALSE

\* app.py 328: the no-repeat guard
IsRepeat(keyword, la) == keyword = la

\* app.py 365
HasFinalAnswer(ai) == Contains(ai, FinalAnswerMarker)

\* app.py 366: ai_content.split("Final Answer")[-1].lstrip(":").lstrip(fwcolon).strip()
ExtractFinalAnswer(ai) ==
    Strip(LStripChars(LStripChars(Last(Split(ai, FinalAnswerMarker)), {":"}), {"fwcolon"}))

\* app.py 370: the direct-answer test
IsDirectAnswer(ai) == ~Contains(ai, RetrieveWord) /\ Len(ai) > DirectMinLen

\* app.py 310: st.session_state.messages[-4:]
ContextWindow(hist) ==
    SubSeq(hist, IF Len(hist) > HistoryWindow THEN Len(hist) - HistoryWindow + 1 ELSE 1, Len(hist))

\* app.py 308-312: hist is the session history at that point, which already
\* holds the new user turn (app.py 285)
BuildMessages(hist, p) ==
    <<Msg("system", SystemPrompt)>> \o ContextWindow(hist) \o <<Msg("user", p)>>

\* app.py 324-363: the retrieval part of one iteration.  res is what
\* search_memory returns if it is called.
Retrieval(msgs, la, ai, res) ==
    IF HasRetrieveMarker(ai)
    THEN LET keyword == ExtractKeyword(ai)
         IN  IF IsRepeat(keyword, la)
             THEN [messages |-> Append(msgs, Msg("user", AlreadySearchedObs)),
                   last_action |-> la, searched |-> FALSE]
             ELSE [messages |-> Append(msgs, Msg("user", ObservationPrefix \o res)),
                   last_action |-> keyword, searched |-> TRUE]
    ELSE [messages |-> msgs, last_action |-> la, searched |-> FALSE]

TerminationMutant(ai) ==
    IF HasFinalAnswer(ai) /\ ~HasRetrieveMarker(ai)
    THEN [break |-> TRUE, final_answer |-> ExtractFinalAnswer(ai), status |-> "complete"]
    ELSE IF IsDirectAnswer(ai)
    THEN [break |-> TRUE, final_answer |-> ai, status |-> "complete-direct"]
    ELSE [break |-> FALSE, final_answer |-> <<>>, status |-> "running"]

\* app.py 365-373: the two break tests of one iteration
Termination(ai) ==
    IF HasFinalAnswer(ai)
    THEN [break |-> TRUE, final_answer |-> ExtractFinalAnswer(ai), status |-> "complete"]
    ELSE IF IsDirectAnswer(ai)
    THEN [break |-> TRUE, final_answer |-> ai, status |-> "complete-direct"]
    ELSE [break |-> FALSE, final_answer |-> <<>>, status |-> "running"]

\* app.py 375-381: after the loop.  fa and st are final_answer and the status
\* label as the loop left them.
PostLoop(fa, st, ai) ==
    IF fa = <<>>
    THEN IF Len(ai) > ForcedMinLen
         THEN [final_answer |-> ai, status |-> "forced"]
         ELSE [final_answer |-> NoConclusionText, status |-> "no-conclusion"]
    ELSE [final_answer |-> fa, status |-> st]

\* app.py 384-391
AppendAnswer(hist, fa) == IF fa # <<>> THEN Append(hist, Msg("assistant", fa)) ELSE hist

(***************************************************************************)
(* The search variables while no search is modelled.                       *)
(***************************************************************************)
\* no chat call of the expander was made
NoReply == [ok |-> FALSE, content |-> <<>>]

SearchIdle ==
    /\ s_pc = "idle"
    /\ impl = "none"
    /\ debug = FALSE
    /\ query = <<>>
    /\ count = 0
    /\ expander_out = NoReply
    /\ expanded_queries = <<>>
    /\ qi = 0
    /\ results = <<>>
    /\ recall_status = "none"
    /\ all_documents = <<>>
    /\ all_metadatas = <<>>
    /\ seen_docs = {}
    /\ debug_logs = <<>>
    /\ scores = <<>>
    /\ scored_docs = <<>>
    /\ top_k_docs = <<>>
    /\ ret = [text |-> <<>>, logs |-> <<>>]

(***************************************************************************)
(* The store and ingestion variables while no ingestion is modelled.       *)
(***************************************************************************)
Files == {"f1", "f2"}

NoOp == [kind |-> "none", file |-> "none", doc |-> "none", listed |-> {}]
NoRet == [ok |-> FALSE, info |-> "none", count |-> 0]

IngestIdle ==
    /\ store = {}
    /\ next_id = 1
    /\ ops = 0
    /\ last_op = NoOp
    /\ i_ret = NoRet
    /\ embed_log = <<>>
    /\ add_log = <<>>
    /\ doc_of = [f \in Files |-> "none"]
    /\ partial = {}

(***************************************************************************)
(* The chunker variables while no chunking is modelled.                    *)
(***************************************************************************)
ChunkIdle ==
    /\ c_pc = "idle"
    /\ c_impl = "none"
    /\ c_text = <<>>
    /\ c_size = 0
    /\ c_overlap = 0
    /\ c_lines = <<>>
    /\ c_li = 0
    /\ chunks = <<>>
    /\ current_chunk = <<>>
    /\ current_length = 0
    /\ current_headers = <<>>
    /\ carried = <<>>

(***************************************************************************)
(* Inputs of the reasoning loop.                                           *)
(***************************************************************************)
MaxPriorTurns == 2

Digits == <<"1", "2", "3", "4", "5", "6", "7", "8", "9">>

\* the k-th earlier question and its answer, already in the session history
PriorTurn(k) == <<Msg("user", <<"<earlier question>", Digits[k]>>),
                  Msg("assistant", <<"<earlier answer>", Digits[k]>>)>>

RECURSIVE PriorTurns(_)
PriorTurns(k) == IF k = 0 THEN <<>> ELSE PriorTurns(k - 1) \o PriorTurn(k)

Prompts == {<<"q", "?">>}

Replies ==
    { RetrieveMarker \o <<" ", "a">>,                            \* retrieve a
      <<"A","c","t","i","o","n",":"," ">> \o RetrieveMarker,     \* empty keyword
      RetrieveMarkerFW \o <<"b", "\n">> \o Rep("t", ForcedMinLen - 5),  \* retrieve b
      FinalAnswerMarker \o <<":", " ", "o", "k", " ">>,
      FinalAnswerMarker \o <<"fwcolon">>,                        \* nothing follows
      RetrieveMarker \o <<"a", "\n">> \o FinalAnswerMarker \o <<"fwcolon", "y">>,
      Rep("x", DirectMinLen + 1),
      Rep("x", DirectMinLen),
      RetrieveWord \o Rep("x", DirectMinLen) }

\* what search_memory can return (app.py 191, 218, 220, 223)
SearchResults == {<<"<no material found>">>, <<"<evidence>">>}

(***************************************************************************)
(* The chat handler of app.py, one action per model call.                  *)
(***************************************************************************)
InitLoop ==
    /\ pc = "idle"
    /\ session_messages \in
           {<<Msg("assistant", Greeting)>> \o PriorTurns(k) : k \in 0..MaxPriorTurns}
    /\ prompt = <<>>
    /\ messages = <<>>
    /\ step = 0
    /\ final_answer = <<>>
    /\ last_action = <<>>
    /\ ai_content = <<>>
    /\ status = "none"
    /\ chat_calls = 0
    /\ search_calls = 0
    /\ first_sent = <<>>
    /\ SearchIdle
    /\ IngestIdle
    /\ ChunkIdle

\* app.py 284-315: a question arrives
Ask ==
    /\ pc = "idle"
    /\ \E p \in Prompts :
        /\ prompt' = p
        /\ session_messages' = Append(session_messages, Msg("user", p))
        /\ messages' = BuildMessages(session_messages', p)
    /\ final_answer' = <<>>
    /\ last_action' = <<>>
    /\ step' = 0
    /\ status' = "running"
    /\ pc' = "loop"
    /\ UNCHANGED <<ai_content, chat_calls, search_calls, first_sent>>
    /\ UNCHANGED <<search_vars, ingest_vars, chunk_vars>>

\* app.py 317-391: one iteration of the loop with a successful chat call; the
\* iteration that leaves the loop also runs the code after it.
Step ==
    /\ pc = "loop"
    /\ \E reply \in Replies :
        LET sent == messages
            msgs1 == Append(messages, Msg("assistant", reply))
            needs == HasRetrieveMarker(reply) /\ ~IsRepeat(ExtractKeyword(reply), last_action)
        IN  \E res \in (IF needs THEN SearchResults ELSE {<<>>}) :
            LET r == Retrieval(msgs1, last_action, reply, res)
                t == Termination(reply)
                leave == t.break \/ step + 1 >= MaxSteps
                post == PostLoop(t.final_answer, t.status, reply)
            IN  /\ ai_content' = reply
                /\ chat_calls' = chat_calls + 1
                /\ first_sent' = IF chat_calls = 0 THEN sent ELSE first_sent
                /\ messages' = r.messages
                /\ last_action' = r.last_action
                /\ search_calls' = search_calls + (IF r.searched THEN 1 ELSE 0)
                /\ IF leave
                   THEN /\ final_answer' = post.final_answer
                        /\ status' = post.status
                        /\ session_messages' = AppendAnswer(session_messages, post.final_answer)
                        /\ pc' = "done"
                        /\ step' = step
                   ELSE /\ final_answer' = t.final_answer
                        /\ status' = status
                        /\ session_messages' = session_messages
                        /\ pc' = "loop"
                        /\ step' = step + 1
    /\ UNCHANGED prompt
    /\ UNCHANGED <<search_vars, ingest_vars, chunk_vars>>

\* app.py 319: ollama.chat raises; nothing in the handler catches it, the
\* script run ends there
ChatFails ==
    /\ pc = "loop"
    /\ chat_calls' = chat_calls + 1
    /\ first_sent' = IF chat_calls = 0 THEN messages ELSE first_sent
    /\ pc' = "crashed"
    /\ UNCHANGED <<session_messages, prompt, messages, step, final_answer,
                   last_action, ai_content, status, search_calls>>
    /\ UNCHANGED <<search_vars, ingest_vars, chunk_vars>>

Next == Ask \/ Step \/ ChatFails

Spec == InitLoop /\ [][Next]_vars

(***************************************************************************)
(* Search: query expansion, multi-recall, rerank, threshold and top-k      *)
(* (search.py 39-74, 92-123, 157-271; app.py 133-223).                     *)
(***************************************************************************)
MULTI_QUERY_COUNT == 3      \* config.py 24; app.py 152 writes [:3]
RECALL_N_RESULTS == 5       \* config.py 25; app.py 175 writes n_results=5
RERANK_TOP_K == 3           \* config.py 26; app.py 213 writes < 3
RERANK_THRESHOLD == -10     \* config.py 27; app.py 213 writes > -10

NoMaterialText == <<"<no relevant material found>">>          \* search.py 236
LowRelevanceText == <<"<relevance too low, add detail>">>      \* search.py 262
SearchErrorText == <<"<search error: >", "<exception>">>       \* search.py 269
UnknownSource == "<unknown source>"                            \* search.py 247
Separator == <<"\n", "-", "-", "-", "\n">>                     \* search.py 264
NoSource == "<no source key>"    \* a metadata dict that is None or has no 'source'

Min(a, b) == IF a <= b THEN a ELSE b

TakeMutant(q, n) == q

\* q[:n] for n >= 0
Take(q, n) == SubSeq(q, 1, Min(n, Len(q)))

\* sep.join(parts)
RECURSIVE Join(_, _)
Join(parts, sep) ==
    IF parts = <<>> THEN <<>>
    ELSE IF Len(parts) = 1 THEN parts[1]
    ELSE parts[1] \o sep \o Join(Tail(parts), sep)

\* search.py 61-65 / app.py 151: [q.split('.')[-1].strip() for q in queries if q.strip()]
RECURSIVE CleanQueries(_)
CleanQueries(lines) ==
    IF lines = <<>> THEN <<>>
    ELSE IF Strip(Head(lines)) # <<>>
    THEN <<Strip(Last(Split(Head(lines), <<".">>)))>> \o CleanQueries(Tail(lines))
    ELSE CleanQueries(Tail(lines))

\* search.py 59-68 / app.py 150-152: the result of expand when the model
\* answers with `content`
ExpandParse(q, content, cnt) ==
    <<q>> \o Take(CleanQueries(Split(Strip(content), <<"\n">>)), cnt)

\* search.py 39-74 / app.py 133-154: out.ok is FALSE when the chat call
\* raises or its response is malformed
Expand(q, out, cnt) == IF out.ok THEN ExpandParse(q, out.content, cnt) ELSE <<q>>

\* search.py 247 / app.py 204
SourceName(meta) == IF meta.source = NoSource THEN UnknownSource ELSE meta.source

\* search.py 257 / app.py 214
DocWithSource(doc, meta) == doc \o <<"\n", "[source: ", SourceName(meta), "]">>

MergeMutant(docs, metas, seen, hits) ==
    [docs |-> docs \o [i \in 1..Len(hits) |-> hits[i].doc],
     metas |-> metas \o [i \in 1..Len(hits) |-> hits[i].meta],
     seen |-> seen \cup {hits[i].doc : i \in 1..Len(hits)}]

\* search.py 194-198 / app.py 182-186: the dedup loop over one variant's hits
RECURSIVE Merge(_, _, _, _)
Merge(docs, metas, seen, hits) ==
    IF hits = <<>> THEN [docs |-> docs, metas |-> metas, seen |-> seen]
    ELSE LET h == Head(hits)
         IN  IF h.doc \notin seen
             THEN Merge(Append(docs, h.doc), Append(metas, h.meta), seen \cup {h.doc}, Tail(hits))
             ELSE Merge(docs, metas, seen, Tail(hits))

RECURSIVE InsertDescMutant(_, _)
InsertDescMutant(sorted, x) ==
    IF sorted = <<>> THEN <<x>>
    ELSE IF Head(sorted).score > x.score
    THEN <<Head(sorted)>> \o InsertDescMutant(Tail(sorted), x)
    ELSE <<x>> \o sorted

\* list.sort(key=score, reverse=True) / sorted(..., reverse=True): stable,
\* an element goes after every element whose score is not smaller
RECURSIVE InsertDesc(_, _)
InsertDesc(sorted, x) ==
    IF sorted = <<>> THEN <<x>>
    ELSE IF Head(sorted).score >= x.score
    THEN <<Head(sorted)>> \o InsertDesc(Tail(sorted), x)
    ELSE <<x>> \o sorted

RECURSIVE SortDesc(_)
SortDesc(q) == IF q = <<>> THEN <<>> ELSE InsertDesc(SortDesc(SubSeq(q, 1, Len(q) - 1)), q[Len(q)])

\* search.py 92-123 / app.py 196-198: sc[i] is the model's score of documents[i]
Rerank(documents, sc, metadatas) ==
    SortDesc([i \in 1..Len(documents) |->
                 [doc |-> documents[i], score |-> sc[i], meta |-> metadatas[i]]])

KeepMutant(top, score) == Len(top) < RERANK_TOP_K /\ score >= RERANK_THRESHOLD

\* search.py 256 / app.py 213
Keep(top, score) == Len(top) < RERANK_TOP_K /\ score > RERANK_THRESHOLD

\* search.py 244-258 / app.py 200-215: the filter loop
RECURSIVE TopK(_, _)
TopK(scored, top) ==
    IF scored = <<>> THEN top
    ELSE LET x == Head(scored)
         IN  TopK(Tail(scored),
                  IF Keep(top, x.score) THEN Append(top, DocWithSource(x.doc, x.meta)) ELSE top)

\* search.py 251-253 / app.py 208-210: one debug line per scored chunk
ScoreLogs(scored) ==
    [i \in 1..Len(scored) |->
        <<"[", ToString(scored[i].score), "] ", SourceName(scored[i].meta), ": ">>
            \o Take(scored[i].doc, 20) \o <<"...">>]

QueryLog(q) == <<"<original query: >">> \o q                         \* search.py 223
ExpandedLog(qs) == <<"<expanded: >">> \o Join(qs, <<", ">>)          \* search.py 228
WarningLog(q) == <<"<error while retrieving: >">> \o q               \* search.py 201
RecalledLog(n) == <<"<recalled: >", ToString(n)>>                    \* search.py 238

(***************************************************************************)
(* Inputs of the search.                                                   *)
(***************************************************************************)
MaxHits == 2     \* chunks the store returns for one variant in the model

Queries == {<<"k">>}

ExpanderOutcomes ==
    { [ok |-> FALSE, content |-> <<>>],
      [ok |-> TRUE, content |-> <<"m">>],
      [ok |-> TRUE, content |-> <<"1", ".", " ", "m", "\n", "\n", "2", ".", " ", "n", ".", "\n",
                                  "3", ".", " ", "E", ".", " ", "c", "\n", "4", ".", " ", "z">>] }

\* what the store holds: d1 is stored under two files
StoreChunks ==
    { [doc |-> <<"d1">>, meta |-> [source |-> "f1"]],
      [doc |-> <<"d2">>, meta |-> [source |-> "f1"]],
      [doc |-> <<"d3">>, meta |-> [source |-> NoSource]],
      [doc |-> <<"d4">>, meta |-> [source |-> "f2"]],
      [doc |-> <<"d1">>, meta |-> [source |-> "f2"]] }

\* collection.query: up to n_results chunks, ordered by the store
HitLists ==
    UNION { { h \in [1..n -> StoreChunks] : \A i, j \in 1..n : i # j => h[i] # h[j] }
            : n \in 0..Min(MaxHits, RECALL_N_RESULTS) }

VariantOutcomes ==
    { [kind |-> "embed_fail", hits |-> <<>>], [kind |-> "query_fail", hits |-> <<>>] }
        \cup { [kind |-> "ok", hits |-> h] : h \in HitLists }

ScoreValues == {RERANK_THRESHOLD, RERANK_THRESHOLD + 1, 5}

(***************************************************************************)
(* The search, one action per external call.                               *)
(***************************************************************************)


LoopIdle ==
    /\ pc = "off"
    /\ session_messages = <<>>
    /\ prompt = <<>>
    /\ messages = <<>>
    /\ step = 0
    /\ final_answer = <<>>
    /\ last_action = <<>>
    /\ ai_content = <<>>
    /\ status = "none"
    /\ chat_calls = 0
    /\ search_calls = 0
    /\ first_sent = <<>>

InitSearch ==
    /\ LoopIdle
    /\ IngestIdle
    /\ ChunkIdle
    /\ s_pc = "start"
    /\ impl \in {"engine", "app"}
    /\ debug \in BOOLEAN
    /\ query \in Queries
    /\ count = MULTI_QUERY_COUNT
    /\ expander_out = NoReply
    /\ expanded_queries = <<>>
    /\ qi = 0
    /\ results = <<>>
    /\ recall_status = "none"
    /\ all_documents = <<>>
    /\ all_metadatas = <<>>
    /\ seen_docs = {}
    /\ debug_logs = <<>>
    /\ scores = <<>>
    /\ scored_docs = <<>>
    /\ top_k_docs = <<>>
    /\ ret = [text |-> <<>>, logs |-> <<>>]

\* search.py 220-228 / app.py 158-169: the query line, the expansion
SearchExpand ==
    /\ s_pc = "start"
    /\ \E out \in ExpanderOutcomes :
        /\ expander_out' = out
        /\ expanded_queries' = Expand(query, out, count)
        /\ debug_logs' = <<QueryLog(query)>>
                            \o (IF debug THEN <<ExpandedLog(expanded_queries')>> ELSE <<>>)
    /\ qi' = 1
    /\ s_pc' = "recall"
    /\ UNCHANGED <<impl, debug, query, count, results, recall_status, all_documents, all_metadatas,
                   seen_docs, scores, scored_docs, top_k_docs, ret>>
    /\ UNCHANGED <<loop_vars, ingest_vars, chunk_vars>>

\* search.py 175-201 / app.py 172-188: one iteration of the recall loop.
\* engine: _generate_embedding returns [] on failure and the variant is
\* skipped without a log; db.query returns empty lists on failure.
\* app: either failure raises into the except of the loop body, which logs.
RecallVariant ==
    /\ s_pc = "recall"
    /\ qi <= Len(expanded_queries)
    /\ \E out \in VariantOutcomes :
        LET m == Merge(all_documents, all_metadatas, seen_docs, out.hits)
        IN  /\ results' = out.hits
            /\ recall_status' = out.kind
            /\ all_documents' = m.docs
            /\ all_metadatas' = m.metas
            /\ seen_docs' = m.seen
            /\ debug_logs' = IF out.kind # "ok" /\ impl = "app"
                             THEN Append(debug_logs, WarningLog(expanded_queries[qi]))
                             ELSE debug_logs
    /\ qi' = qi + 1
    /\ UNCHANGED <<s_pc, impl, debug, query, count, expander_out, expanded_queries, scores, scored_docs, top_k_docs, ret>>
    /\ UNCHANGED <<loop_vars, ingest_vars, chunk_vars>>

\* search.py 203 / app.py 172: the recall loop is over; its local `results`
\* goes out of scope
RecallReturn ==
    /\ s_pc = "recall"
    /\ qi > Len(expanded_queries)
    /\ results' = <<>>
    /\ recall_status' = "none"
    /\ s_pc' = "recalled"
    /\ UNCHANGED <<impl, debug, query, count, expander_out, expanded_queries, qi, all_documents, all_metadatas,
                   seen_docs, debug_logs, scores, scored_docs, top_k_docs, ret>>
    /\ UNCHANGED <<loop_vars, ingest_vars, chunk_vars>>

SearchNothingRecalledMutant ==
    /\ s_pc = "recalled"
    /\ all_documents = <<>>
    /\ ret' = [text |-> LowRelevanceText, logs |-> debug_logs]
    /\ s_pc' = "done"
    /\ UNCHANGED <<impl, debug, query, count, expander_out, expanded_queries, qi, results, recall_status,
                   all_documents, all_metadatas, seen_docs, debug_logs, scores, scored_docs, top_k_docs>>
    /\ UNCHANGED <<loop_vars, ingest_vars, chunk_vars>>

\* search.py 234-236 / app.py 190-191
SearchNothingRecalled ==
    /\ s_pc = "recalled"
    /\ all_documents = <<>>
    /\ ret' = [text |-> NoMaterialText, logs |-> debug_logs]
    /\ s_pc' = "done"
    /\ UNCHANGED <<impl, debug, query, count, expander_out, expanded_queries, qi, results, recall_status,
                   all_documents, all_metadatas, seen_docs, debug_logs, scores, scored_docs, top_k_docs>>
    /\ UNCHANGED <<loop_vars, ingest_vars, chunk_vars>>

\* search.py 238-266 / app.py 193-220: rerank, filter, format
SearchRerank ==
    /\ s_pc = "recalled"
    /\ all_documents # <<>>
    /\ \E sc \in [1..Len(all_documents) -> ScoreValues] :
        LET scored == Rerank(all_documents, sc, all_metadatas)
            top == TopK(scored, <<>>)
            logs == Append(debug_logs, RecalledLog(Len(all_documents)))
                        \o (IF debug THEN ScoreLogs(scored) ELSE <<>>)
        IN  /\ scores' = sc
            /\ scored_docs' = scored
            /\ top_k_docs' = top
            /\ debug_logs' = logs
            /\ ret' = [text |-> IF top = <<>> THEN LowRelevanceText ELSE Join(top, Separator),
                       logs |-> logs]
    /\ s_pc' = "done"
    /\ UNCHANGED <<impl, debug, query, count, expander_out, expanded_queries, qi, results, recall_status,
                   all_documents, all_metadatas, seen_docs>>
    /\ UNCHANGED <<loop_vars, ingest_vars, chunk_vars>>

\* search.py 116, 268-271 / app.py 197, 222-223: the rerank model raises
SearchRerankFails ==
    /\ s_pc = "recalled"
    /\ all_documents # <<>>
    /\ debug_logs' = Append(debug_logs, RecalledLog(Len(all_documents)))
    /\ ret' = [text |-> SearchErrorText, logs |-> <<<<"<exception>">>>>]
    /\ s_pc' = "done"
    /\ UNCHANGED <<impl, debug, query, count, expander_out, expanded_queries, qi, results, recall_status,
                   all_documents, all_metadatas, seen_docs, scores, scored_docs, top_k_docs>>
    /\ UNCHANGED <<loop_vars, ingest_vars, chunk_vars>>

NextSearch ==
    \/ SearchExpand
    \/ RecallVariant
    \/ RecallReturn
    \/ SearchNothingRecalled
    \/ SearchRerank
    \/ SearchRerankFails

SpecSearch == InitSearch /\ [][NextSearch]_vars

(***************************************************************************)
(* Query expansion on its own: QueryExpander.expand (search.py 39-74) and  *)
(* generate_search_queries (app.py 133-154) applied to replies of the      *)
(* model built from a few kinds of line.                                   *)
(***************************************************************************)
MaxLines == 4    \* lines of a reply of the model
MaxCount == 3    \* largest count argument

\* a bare keyword, an enumerated keyword, one ending in a period, one with an
\* inner period, an empty line, a line of white space
ReplyLines ==
    { <<"m">>,
      <<"1", ".", " ", "m">>,
      <<"2", ".", " ", "n", ".">>,
      <<"3", ".", " ", "E", ".", " ", "c">>,
      <<>>,
      <<" ">> }

ExpandReplies ==
    { NoReply } \cup
    { [ok |-> TRUE, content |-> Join(ls, <<"\n">>)] :
        ls \in UNION { [1..n -> ReplyLines] : n \in 0..MaxLines } }

ExpandQueries == { <<"k">>, <<" ", "1", ".", "k", " ">> }

\* search.py 39: count is an argument; app.py 152 writes [:3]
ExpandCounts(im) == IF im = "app" THEN {MULTI_QUERY_COUNT} ELSE 0..MaxCount

InitExpand ==
    /\ LoopIdle
    /\ IngestIdle
    /\ ChunkIdle
    /\ s_pc = "expand"
    /\ impl \in {"engine", "app"}
    /\ debug = FALSE
    /\ query \in ExpandQueries
    /\ count \in ExpandCounts(impl)
    /\ expander_out \in ExpandReplies
    /\ expanded_queries = <<>>
    /\ qi = 0
    /\ results = <<>>
    /\ recall_status = "none"
    /\ all_documents = <<>>
    /\ all_metadatas = <<>>
    /\ seen_docs = {}
    /\ debug_logs = <<>>
    /\ scores = <<>>
    /\ scored_docs = <<>>
    /\ top_k_docs = <<>>
    /\ ret = [text |-> <<>>, logs |-> <<>>]

\* search.py 39-74 / app.py 133-154
ExpandCall ==
    /\ s_pc = "expand"
    /\ expanded_queries' = Expand(query, expander_out, count)
    /\ s_pc' = "expanded"
    /\ UNCHANGED <<impl, debug, query, count, expander_out, qi, results, recall_status,
                   all_documents, all_metadatas, seen_docs, debug_logs, scores, scored_docs,
                   top_k_docs, ret>>
    /\ UNCHANGED <<loop_vars, ingest_vars, chunk_vars>>

NextExpand == ExpandCall

SpecExpand == InitExpand /\ [][NextExpand]_vars

(***************************************************************************)
(* The reranker on its own: Reranker.rerank (search.py 92-123) and the     *)
(* sorted(zip(...)) of app.py 196-198, on lists with repeated scores.      *)
(***************************************************************************)
MaxDocs == 3     \* documents handed to the reranker

RerankDocs == { <<"d1">>, <<"d2">> }

RerankMetas == { [source |-> "f1"], [source |-> NoSource] }

InitRerank ==
    /\ LoopIdle
    /\ IngestIdle
    /\ ChunkIdle
    /\ s_pc = "rerank"
    /\ impl \in {"engine", "app"}
    /\ debug = FALSE
    /\ query \in Queries
    /\ count = 0
    /\ expander_out = NoReply
    /\ expanded_queries = <<>>
    /\ qi = 0
    /\ results = <<>>
    /\ recall_status = "none"
    /\ \E n \in 0..MaxDocs :
        /\ all_documents \in [1..n -> RerankDocs]
        /\ all_metadatas \in [1..n -> RerankMetas]
        /\ scores \in [1..n -> ScoreValues]
    /\ seen_docs = {}
    /\ debug_logs = <<>>
    /\ scored_docs = <<>>
    /\ top_k_docs = <<>>
    /\ ret = [text |-> <<>>, logs |-> <<>>]

\* search.py 92-123 / app.py 196-198
RerankCall ==
    /\ s_pc = "rerank"
    /\ scored_docs' = IF all_documents = <<>> THEN <<>>
                      ELSE Rerank(all_documents, scores, all_metadatas)
    /\ s_pc' = "reranked"
    /\ UNCHANGED <<impl, debug, query, count, expander_out, expanded_queries, qi, results,
                   recall_status, all_documents, all_metadatas, seen_docs, debug_logs,
                   scores, top_k_docs, ret>>
    /\ UNCHANGED <<loop_vars, ingest_vars, chunk_vars>>

NextRerank == RerankCall

SpecRerank == InitRerank /\ [][NextRerank]_vars

(***************************************************************************)
(* The chunker (document_processor.py 20-80).                              *)
(***************************************************************************)
CHUNK_SIZE == 600            \* config.py 19
CHUNK_OVERLAP_LINES == 3     \* config.py 20
BATCH_SIZE == 20             \* config.py 21
MinChunkLen == 10            \* document_processor.py 160: len(chunk) < 10

\* the opening and the closing of the section annotation: four characters
\* (a bracket, two Chinese characters, a full-width colon), then the bracket
\* and the line break
SectionOpen == <<"[[", "zhang", "jie", "fwcolon">>
SectionClose == <<"]]", "\n">>

ChunkTextMutant(headers, lines) ==
    SectionOpen \o Join(headers, <<" ", ">", " ">>) \o SectionClose
        \o Join(SubSeq(lines, 1, Len(lines) - 1), <<"\n">>)

\* document_processor.py 65-66, 75-76
ChunkText(headers, lines) ==
    SectionOpen \o Join(headers, <<" ", ">", " ">>) \o SectionClose \o Join(lines, <<"\n">>)

\* document_processor.py 47
HeadingLevel(stripped) == Len(stripped) - Len(LStripChars(stripped, {"#"}))

\* document_processor.py 48
HeadingTitle(stripped) == Strip(RStripChars(LStripChars(stripped, {"#"}), {"#"}))

PushHeadingMutant(headers, level, title) == Append(headers, title)

\* document_processor.py 51-53
PushHeading(headers, level, title) ==
    Append(IF Len(headers) >= level THEN SubSeq(headers, 1, level - 1) ELSE headers, title)

\* document_processor.py 70: current_chunk[-overlap_lines:]; [-0:] is the whole list
Overlap(chunk, overlap_lines) ==
    IF overlap_lines = 0 \/ overlap_lines >= Len(chunk) THEN chunk
    ELSE SubSeq(chunk, Len(chunk) - overlap_lines + 1, Len(chunk))

SumLen(lines) ==
    LET F[i \in 0..Len(lines)] == IF i = 0 THEN 0 ELSE F[i - 1] + Len(lines[i])
    IN  F[Len(lines)]

\* document_processor.py 42-71: the loop body for one line; st holds chunks,
\* current_chunk, current_length, current_headers
SplitLine(st, line, chunk_size, overlap_lines) ==
    LET stripped == Strip(line)
        buf == Append(st.current_chunk, line)
        len == st.current_length + Len(line)
    IN  IF StartsWith(stripped, <<"#">>)
        THEN [st EXCEPT !.current_headers =
                            PushHeading(@, HeadingLevel(stripped), HeadingTitle(stripped)),
                        !.current_chunk = buf,
                        !.current_length = len]
        ELSE IF len > chunk_size
        THEN [st EXCEPT !.chunks = Append(@, ChunkText(st.current_headers, buf)),
                        !.current_chunk = Overlap(buf, overlap_lines),
                        !.current_length = SumLen(Overlap(buf, overlap_lines))]
        ELSE [st EXCEPT !.current_chunk = buf, !.current_length = len]

\* document_processor.py 36-80
split_smart(text, chunk_size, overlap_lines) ==
    LET lines == Split(text, <<"\n">>)
        F[i \in 0..Len(lines)] ==
            IF i = 0
            THEN [chunks |-> <<>>, current_chunk |-> <<>>, current_length |-> 0,
                  current_headers |-> <<>>]
            ELSE SplitLine(F[i - 1], lines[i], chunk_size, overlap_lines)
        end == F[Len(lines)]
    IN  IF end.current_chunk # <<>>
        THEN Append(end.chunks, ChunkText(end.current_headers, end.current_chunk))
        ELSE end.chunks

\* app.py 59: stripped.count('#')
HeadingLevelApp(stripped) == Cardinality({i \in 1..Len(stripped) : stripped[i] = "#"})

\* app.py 56-80: the loop body for one line; the overlap is the 3 of [-3:]
SplitLineApp(st, line, chunk_size) ==
    LET stripped == Strip(line)
        buf == Append(st.current_chunk, line)
        len == st.current_length + Len(line)
    IN  IF StartsWith(stripped, <<"#">>)
        THEN [st EXCEPT !.current_headers =
                            PushHeading(@, HeadingLevelApp(stripped), HeadingTitle(stripped)),
                        !.current_chunk = buf,
                        !.current_length = len]
        ELSE IF len > chunk_size
        THEN [st EXCEPT !.chunks = Append(@, ChunkText(st.current_headers, buf)),
                        !.current_chunk = Overlap(buf, 3),
                        !.current_length = SumLen(Overlap(buf, 3))]
        ELSE [st EXCEPT !.current_chunk = buf, !.current_length = len]

\* app.py 49-86
split_markdown_smart(text, chunk_size) ==
    LET lines == Split(text, <<"\n">>)
        F[i \in 0..Len(lines)] ==
            IF i = 0
            THEN [chunks |-> <<>>, current_chunk |-> <<>>, current_length |-> 0,
                  current_headers |-> <<>>]
            ELSE SplitLineApp(F[i - 1], lines[i], chunk_size)
        end == F[Len(lines)]
    IN  IF end.current_chunk # <<>>
        THEN Append(end.chunks, ChunkText(end.current_headers, end.current_chunk))
        ELSE end.chunks

(***************************************************************************)
(* The chunker line by line: one action per iteration of the loop of       *)
(* split_smart (document_processor.py 42-71) and split_markdown_smart      *)
(* (app.py 56-80), one for the final chunk.                                *)
(***************************************************************************)
MaxTextLines == 4    \* lines of an input text

\* headings of level 1 and 2, a heading with a second '#' inside, a body
\* line, an empty line
TextLines ==
    { <<"#", "A">>, <<"#", "#", "B">>, <<"#", "#", "C">>, <<"#", "a", "#", "b">>,
      <<"x", "y">>, <<>> }

\* "" and every text of 1..MaxTextLines lines
Texts == { Join(ls, <<"\n">>) : ls \in UNION { [1..n -> TextLines] : n \in 0..MaxTextLines } }

ChunkSizes == {3, 5}

ChunkOverlaps == {0, 1, CHUNK_OVERLAP_LINES}

InitChunk ==
    /\ LoopIdle
    /\ SearchIdle
    /\ IngestIdle
    /\ c_pc = "loop"
    /\ c_impl \in {"processor", "app"}
    /\ c_text \in Texts
    /\ c_size \in ChunkSizes
    /\ c_overlap \in (IF c_impl = "app" THEN {3} ELSE ChunkOverlaps)
    /\ c_lines = Split(c_text, <<"\n">>)
    /\ c_li = 1
    /\ chunks = <<>>
    /\ current_chunk = <<>>
    /\ current_length = 0
    /\ current_headers = <<>>
    /\ carried = <<0>>

\* document_processor.py 42-71 / app.py 56-80: one iteration
ChunkLine ==
    /\ c_pc = "loop"
    /\ c_li <= Len(c_lines)
    /\ LET st == [chunks |-> chunks, current_chunk |-> current_chunk,
                  current_length |-> current_length, current_headers |-> current_headers]
           r == IF c_impl = "app" THEN SplitLineApp(st, c_lines[c_li], c_size)
                ELSE SplitLine(st, c_lines[c_li], c_size, c_overlap)
       IN  /\ chunks' = r.chunks
           /\ current_chunk' = r.current_chunk
           /\ current_length' = r.current_length
           /\ current_headers' = r.current_headers
           /\ carried' = IF Len(r.chunks) > Len(chunks)
                         THEN Append(carried, Len(r.current_chunk))
                         ELSE carried
    /\ c_li' = c_li + 1
    /\ UNCHANGED <<c_pc, c_impl, c_text, c_size, c_overlap, c_lines>>
    /\ UNCHANGED <<loop_vars, search_vars, ingest_vars>>

\* document_processor.py 74-80 / app.py 82-86: the last chunk, the return
ChunkFinish ==
    /\ c_pc = "loop"
    /\ c_li > Len(c_lines)
    /\ chunks' = IF current_chunk # <<>>
                 THEN Append(chunks, ChunkText(current_headers, current_chunk))
                 ELSE chunks
    /\ c_pc' = "done"
    /\ UNCHANGED <<c_impl, c_text, c_size, c_overlap, c_lines, c_li, current_chunk,
                   current_length, current_headers, carried>>
    /\ UNCHANGED <<loop_vars, search_vars, ingest_vars>>

NextChunk == ChunkLine \/ ChunkFinish

SpecChunk == InitChunk /\ [][NextChunk]_vars

(***************************************************************************)
(* The knowledge store (database.py) and ingestion (document_processor.py  *)
(* 119-206).                                                               *)
(***************************************************************************)
\* database.py 30-51: ok is FALSE when collection.get raises
get_existing_files(st, ok) == IF ok THEN {r.source : r \in st} ELSE {}

\* database.py 53-70: ok is FALSE when collection.delete raises
delete_file(st, filename, ok) ==
    IF ok THEN [store |-> {r \in st : r.source # filename}, ok |-> TRUE]
    ELSE [store |-> st, ok |-> FALSE]

\* database.py 72-103: ok is FALSE when collection.add raises
add_chunks(st, batch, ok) ==
    IF ok THEN [store |-> st \cup Range(batch), ok |-> TRUE]
    ELSE [store |-> st, ok |-> FALSE]

FlushMutant(acc, fail_at) ==
    LET r == add_chunks(acc.store, acc.batch, acc.adds + 1 # fail_at)
        entry == [chunks |-> [i \in 1..Len(acc.batch) |-> acc.batch[i].chunk_index],
                  ok |-> r.ok]
    IN  [acc EXCEPT !.store = r.store,
                    !.processed = @ + (IF r.ok THEN Len(acc.batch) ELSE 0),
                    !.batch = <<>>,
                    !.adds = @ + 1,
                    !.add_log = Append(@, entry)]

\* document_processor.py 178-188, 196-203: one add_chunks call of process_file;
\* acc.adds counts the calls, the call numbered fail_at raises
Flush(acc, fail_at) ==
    LET r == add_chunks(acc.store, acc.batch, acc.adds + 1 # fail_at)
        entry == [chunks |-> [i \in 1..Len(acc.batch) |-> acc.batch[i].chunk_index],
                  ok |-> r.ok]
    IN  IF r.ok
        THEN [acc EXCEPT !.store = r.store,
                         !.processed = @ + Len(acc.batch),
                         !.batch = <<>>,
                         !.adds = @ + 1,
                         !.add_log = Append(@, entry)]
        ELSE [acc EXCEPT !.failed = TRUE,
                         !.adds = @ + 1,
                         !.add_log = Append(@, entry)]

\* document_processor.py 158-188: the loop body for chunk i (0-based);
\* embed_text fails for the chunks in embed_fails
ProcessChunk(acc, i, chunk, filename, embed_fails, fail_at, batch_size) ==
    IF acc.failed \/ Len(chunk) < MinChunkLen THEN acc
    ELSE IF i \in embed_fails
    THEN [acc EXCEPT !.embed_log = Append(@, [chunk |-> i, ok |-> FALSE])]
    ELSE LET a == [acc EXCEPT !.batch = Append(@, [id |-> acc.next_id, source |-> filename,
                                                   chunk_index |-> i]),
                              !.next_id = @ + 1,
                              !.embed_log = Append(@, [chunk |-> i, ok |-> TRUE])]
         IN  IF Len(a.batch) >= batch_size THEN Flush(a, fail_at) ELSE a

AlreadyExistsMutant(filename, existing_files) == FALSE

\* document_processor.py 140
AlreadyExists(filename, existing_files) == filename \in existing_files

\* document_processor.py 138-206: the result of process_file on the chunks
\* split_smart gave for the content
process_file(raw_chunks, filename, st, id0, list_ok, embed_fails, fail_at, batch_size) ==
    LET start == [store |-> st, next_id |-> id0, batch |-> <<>>, processed |-> 0,
                  adds |-> 0, failed |-> FALSE, embed_log |-> <<>>, add_log |-> <<>>]
        F[i \in 0..Len(raw_chunks)] ==
            IF i = 0 THEN start
            ELSE ProcessChunk(F[i - 1], i - 1, raw_chunks[i], filename, embed_fails,
                              fail_at, batch_size)
        looped == F[Len(raw_chunks)]
        end == IF ~looped.failed /\ looped.batch # <<>> THEN Flush(looped, fail_at) ELSE looped
    IN  IF AlreadyExists(filename, get_existing_files(st, list_ok))
        THEN [start EXCEPT !.failed = TRUE] @@ [ret |-> [ok |-> FALSE, info |-> "EXIST", count |-> 0]]
        ELSE IF Len(raw_chunks) = 0
        THEN [start EXCEPT !.failed = TRUE] @@ [ret |-> [ok |-> FALSE, info |-> "EMPTY", count |-> 0]]
        ELSE IF end.failed
        THEN end @@ [ret |-> [ok |-> FALSE, info |-> "ERROR", count |-> 0]]
        ELSE end @@ [ret |-> [ok |-> TRUE, info |-> "COUNT", count |-> end.processed]]

\* app.py 107-121: the loop body for chunk i (0-based); ollama.embeddings
\* raises for the chunks in embed_fails, which ends the run (app.py 120-121)
SaveChunk(acc, i, chunk, filename, embed_fails, fail_at) ==
    IF acc.failed \/ Len(chunk) < MinChunkLen THEN acc
    ELSE IF i \in embed_fails
    THEN [acc EXCEPT !.embed_log = Append(@, [chunk |-> i, ok |-> FALSE]), !.failed = TRUE]
    ELSE LET a == [acc EXCEPT !.batch = Append(@, [id |-> acc.next_id, source |-> filename,
                                                   chunk_index |-> i]),
                              !.next_id = @ + 1,
                              !.embed_log = Append(@, [chunk |-> i, ok |-> TRUE])]
         IN  IF Len(a.batch) >= BATCH_SIZE THEN Flush(a, fail_at) ELSE a

\* app.py 89-131: the result of save_uploaded_file on the chunks
\* split_markdown_smart gave for the content; it returns total_chunks
save_uploaded_file(raw_chunks, filename, st, id0, list_ok, embed_fails, fail_at) ==
    LET start == [store |-> st, next_id |-> id0, batch |-> <<>>, processed |-> 0,
                  adds |-> 0, failed |-> FALSE, embed_log |-> <<>>, add_log |-> <<>>]
        F[i \in 0..Len(raw_chunks)] ==
            IF i = 0 THEN start
            ELSE SaveChunk(F[i - 1], i - 1, raw_chunks[i], filename, embed_fails, fail_at)
        looped == F[Len(raw_chunks)]
        end == IF ~looped.failed /\ looped.batch # <<>> THEN Flush(looped, fail_at) ELSE looped
    IN  IF filename \in get_existing_files(st, list_ok)
        THEN [start EXCEPT !.failed = TRUE] @@ [ret |-> [ok |-> FALSE, info |-> "EXIST", count |-> 0]]
        ELSE IF Len(raw_chunks) = 0
        THEN [start EXCEPT !.failed = TRUE] @@ [ret |-> [ok |-> FALSE, info |-> "EMPTY", count |-> 0]]
        ELSE IF end.failed
        THEN end @@ [ret |-> [ok |-> FALSE, info |-> "ERROR", count |-> 0]]
        ELSE end @@ [ret |-> [ok |-> TRUE, info |-> "COUNT", count |-> Len(raw_chunks)]]

(***************************************************************************)
(* Inputs of the ingestion.                                                *)
(***************************************************************************)
MaxOps == 2

DocNames == {"empty", "small", "long"}

\* "long": 23 lines of 201 characters, which split_smart cuts into 22 chunks
DocText ==
    [d \in DocNames |->
        CASE d = "empty" -> <<>>
          [] d = "small" -> <<"#", " ", "A", "\n">> \o Rep("x", 8)
          [] d = "long" -> Join(Rep(Rep("x", 201), 23), <<"\n">>)]

\* document_processor.py 145
ChunksOf == [d \in DocNames |-> split_smart(DocText[d], CHUNK_SIZE, CHUNK_OVERLAP_LINES)]

\* the chunks whose embedding may fail in one run: any of the first chunk, the
\* chunk that would fill the first batch and the last chunk
EmbedFailSets(d) ==
    SUBSET ({0, BATCH_SIZE - 1, Len(ChunksOf[d]) - 1} \cap (0..(Len(ChunksOf[d]) - 1)))

\* the add_chunks call that raises in one run: none (0), the first, the second
AddFailChoices == 0..2

(***************************************************************************)
(* Ingestion and deletion, one action per operation.                       *)
(***************************************************************************)
InitIngest ==
    /\ LoopIdle
    /\ SearchIdle
    /\ ChunkIdle
    /\ IngestIdle

ProcessFile ==
    /\ ops < MaxOps
    /\ \E f \in Files, d \in DocNames, list_ok \in BOOLEAN, fail_at \in AddFailChoices :
       \E embed_fails \in EmbedFailSets(d) :
        LET r == process_file(ChunksOf[d], f, store, next_id, list_ok, embed_fails,
                              fail_at, BATCH_SIZE)
        IN  /\ store' = r.store
            /\ next_id' = r.next_id
            /\ i_ret' = r.ret
            /\ embed_log' = r.embed_log
            /\ add_log' = r.add_log
            /\ last_op' = [kind |-> "process_file", file |-> f, doc |-> d,
                           listed |-> get_existing_files(store, list_ok)]
            /\ doc_of' = IF r.ret.info = "EXIST" THEN doc_of ELSE [doc_of EXCEPT ![f] = d]
            /\ partial' = IF r.ret.info = "ERROR" /\ r.processed > 0
                           THEN partial \cup {f} ELSE partial
    /\ ops' = ops + 1
    /\ UNCHANGED <<loop_vars, search_vars, chunk_vars>>

\* app.py 97
ChunksOfApp == [d \in DocNames |-> split_markdown_smart(DocText[d], CHUNK_SIZE)]

\* app.py 89-131
SaveUploadedFile ==
    /\ ops < MaxOps
    /\ \E f \in Files, d \in DocNames, list_ok \in BOOLEAN, fail_at \in AddFailChoices :
       \E embed_fails \in EmbedFailSets(d) :
        LET r == save_uploaded_file(ChunksOfApp[d], f, store, next_id, list_ok, embed_fails,
                                    fail_at)
        IN  /\ store' = r.store
            /\ next_id' = r.next_id
            /\ i_ret' = r.ret
            /\ embed_log' = r.embed_log
            /\ add_log' = r.add_log
            /\ last_op' = [kind |-> "save_uploaded_file", file |-> f, doc |-> d,
                           listed |-> get_existing_files(store, list_ok)]
            /\ doc_of' = IF r.ret.info = "EXIST" THEN doc_of ELSE [doc_of EXCEPT ![f] = d]
            /\ partial' = partial
    /\ ops' = ops + 1
    /\ UNCHANGED <<loop_vars, search_vars, chunk_vars>>

DeleteFile ==
    /\ ops < MaxOps
    /\ \E f \in Files, ok \in BOOLEAN :
        LET r == delete_file(store, f, ok)
        IN  /\ store' = r.store
            /\ i_ret' = [ok |-> r.ok, info |-> IF r.ok THEN "DELETED" ELSE "ERROR", count |-> 0]
            /\ last_op' = [kind |-> "delete_file", file |-> f, doc |-> "none", listed |-> {}]
            /\ doc_of' = IF r.ok THEN [doc_of EXCEPT ![f] = "none"] ELSE doc_of
            /\ partial' = IF r.ok THEN partial \ {f} ELSE partial
    /\ embed_log' = <<>>
    /\ add_log' = <<>>
    /\ ops' = ops + 1
    /\ UNCHANGED next_id
    /\ UNCHANGED <<loop_vars, search_vars, chunk_vars>>

NextIngest == ProcessFile \/ SaveUploadedFile \/ DeleteFile

SpecIngest == InitIngest /\ [][NextIngest]_vars

(***************************************************************************)
(* Claims about the reasoning loop.                                        *)
(***************************************************************************)
Outcomes == {"complete", "complete-direct", "forced", "no-conclusion"}

\* the model replies received so far for the current question, in order
RepliesSoFar ==
    LET tail == SubSeq(messages, Len(first_sent) + 1, Len(messages))
    IN  SelectSeq(tail, LAMBDA m : m.role = "assistant")

\* C1: with every chat call succeeding, one question costs at most 5
\* chat-completion calls (the loop never waits for a 6th reply) and ends in
\* exactly one of the outcomes complete, complete-direct, forced,
\* no-conclusion, with a non-empty final answer text.
C1_BoundedLoop ==
    /\ chat_calls <= 5
    /\ pc = "loop" => chat_calls < 5
    /\ pc = "done" => status \in Outcomes /\ final_answer # <<>>

C1_Witness == pc = "done" /\ chat_calls = 5 /\ status = "no-conclusion"

\* C2: a step whose reply carries a retrieval directive with the keyword equal
\* to last_action appends the reply and the synthetic "already searched"
\* Observation turn, calls search_memory zero times and leaves last_action
\* unchanged.
C2_RepeatGuard ==
    [][ ( /\ pc = "loop"
          /\ pc' # "crashed"
          /\ chat_calls' = chat_calls + 1
          /\ HasRetrieveMarker(ai_content')
          /\ ExtractKeyword(ai_content') = last_action )
        => ( /\ messages' = messages \o <<Msg("assistant", ai_content'),
                                           Msg("user", AlreadySearchedObs)>>
             /\ search_calls' = search_calls
             /\ last_action' = last_action ) ]_vars

C2_Witness ==
    /\ search_calls = 1
    /\ chat_calls = 2
    /\ last_action = <<"a">>
    /\ messages # <<>>
    /\ Last(messages) = Msg("user", AlreadySearchedObs)

\* the text after the marker, a leading colon of either width and the
\* surrounding whitespace removed
TextAfterFinalAnswer(ai) ==
    LET i == Find(ai, FinalAnswerMarker)
    IN  Strip(LStripChars(Strip(SubSeq(ai, i + Len(FinalAnswerMarker), Len(ai))),
                          {":", "fwcolon"}))

\* C3: every reply that contains "Final Answer" ends the loop at that step
\* with status complete and the final answer equal to the text after the
\* marker (leading colon and whitespace stripped), also when nothing follows
\* the marker.
C3_FinalAnswerCompletes ==
    /\ (pc = "loop" /\ chat_calls > 0) => ~HasFinalAnswer(ai_content)
    /\ (pc = "done" /\ HasFinalAnswer(ai_content))
           => (status = "complete" /\ final_answer = TextAfterFinalAnswer(ai_content))

\* C4: a reply with neither retrieval marker and without "Final Answer" ends
\* the loop at that step with the whole reply as the answer and status
\* complete-direct when it is longer than 20 characters; when it is not, the
\* loop goes on to the next step (it ends only with the step budget).
NoMarkers(ai) == ~HasRetrieveMarker(ai) /\ ~HasFinalAnswer(ai)

C4_DirectAnswer ==
    /\ (pc = "loop" /\ chat_calls > 0 /\ NoMarkers(ai_content)) => Len(ai_content) <= 20
    /\ (pc = "done" /\ NoMarkers(ai_content) /\ Len(ai_content) > 20)
           => (status = "complete-direct" /\ final_answer = ai_content)
    /\ (pc = "done" /\ NoMarkers(ai_content) /\ Len(ai_content) <= 20) => chat_calls = 5

\* C5: when none of the 5 replies is a final answer or a direct answer the
\* loop ends after the 5th call, with the 5th reply as the answer and status
\* forced if it is longer than 10 characters and with the no-conclusion
\* sentence and status otherwise; and when the 5 replies are one and the same
\* retrieval directive, exactly one search was made, at step 1.
NoTermination(ai) == ~HasFinalAnswer(ai) /\ ~(~HasRetrieveMarker(ai) /\ Len(ai) > 20)

C5_BudgetExhausted ==
    (pc = "done" /\ \A i \in 1..Len(RepliesSoFar) : NoTermination(RepliesSoFar[i].content))
        => /\ chat_calls = 5
           /\ Len(ai_content) > 10 => (status = "forced" /\ final_answer = ai_content)
           /\ Len(ai_content) <= 10
                  => (status = "no-conclusion" /\ final_answer = NoConclusionText)
           /\ ( /\ HasRetrieveMarker(ai_content)
                /\ \A i \in 1..Len(RepliesSoFar) : RepliesSoFar[i].content = ai_content )
                  => ( /\ search_calls = 1
                       /\ messages[Len(first_sent) + 2].content # AlreadySearchedObs )

\* C9: a chat-completion call that raises does not end the handling of the
\* question without an answer: the handling always ends with some answer text
\* for the user.
C9_ChatFailureAnswered ==
    pc \in {"done", "crashed"}
        => (final_answer # <<>> /\ Last(session_messages).role = "assistant")

\* the session history as it stood before the question being handled arrived
HistoryBefore ==
    SubSeq(session_messages, 1, Len(session_messages) - (IF pc = "done" THEN 2 ELSE 1))

LastN(q, n) == SubSeq(q, IF Len(q) > n THEN Len(q) - n + 1 ELSE 1, Len(q))

\* C10: the first model call of a question is sent the system prompt, then
\* the last 4 entries of the session history as it stood before the question,
\* then the new user turn exactly once.
C10_FirstCallWindow ==
    chat_calls >= 1
        => first_sent = <<Msg("system", SystemPrompt)>> \o LastN(HistoryBefore, 4)
                            \o <<Msg("user", prompt)>>

(***************************************************************************)
(* Claims about the search.                                                *)
(***************************************************************************)

\* the elements of q at the indexes in S, in increasing index order
SubseqAt(q, S) ==
    LET F[i \in 0..Len(q)] ==
            IF i = 0 THEN <<>> ELSE IF i \in S THEN Append(F[i - 1], q[i]) ELSE F[i - 1]
    IN  F[Len(q)]

AboveThreshold == SelectSeq(scored_docs, LAMBDA x : x.score > -10)

\* the chunks the returned text holds
Included == {i \in 1..Len(scored_docs) : Contains(ret.text, scored_docs[i].doc)}

\* C6: the evidence text a search returns holds no chunk scored <= -10 and at
\* most 3 chunks; they are the highest-scoring chunks above the threshold, in
\* descending score order, each followed by its source annotation, joined by
\* the "\n---\n" separator.
C6_ThresholdTopK ==
    s_pc = "done" =>
        LET inc == Included
            kept == SubseqAt(scored_docs, inc)
        IN  /\ \A i \in inc : scored_docs[i].score > -10
            /\ Cardinality(inc) <= 3
            /\ \A i \in inc : \A j \in 1..Len(scored_docs) :
                   (j \notin inc /\ scored_docs[j].score > -10)
                       => scored_docs[j].score <= scored_docs[i].score
            /\ \A i, j \in inc : i < j => scored_docs[i].score >= scored_docs[j].score
            /\ ret.text \notin {NoMaterialText, LowRelevanceText, SearchErrorText}
                   => ret.text = Join([a \in 1..Len(kept) |->
                                          kept[a].doc \o <<"\n", "[source: ",
                                                           SourceName(kept[a].meta), "]">>],
                                      <<"\n", "-", "-", "-", "\n">>)
            /\ (scored_docs # <<>> /\ AboveThreshold # <<>>) => inc # {}

C6_Witness ==
    /\ s_pc = "done"
    /\ impl = "app"
    /\ Len(AboveThreshold) = 4
    /\ Cardinality(Included) = 3

NoDup(q) == \A i, j \in 1..Len(q) : i # j => q[i] # q[j]

\* C7: the merged document list holds each distinct chunk text once, at the
\* position of its first occurrence across the variants in variant order, and
\* the metadata list stays aligned with it: handling one variant appends, in
\* the order of the store's answer, exactly the chunks whose text was not
\* seen before, each with the metadata it came with.
C7_MultiRecallDedup ==
    /\ [](NoDup(all_documents) /\ Len(all_metadatas) = Len(all_documents))
    /\ [][ qi' = qi + 1 =>
             LET hits == results'
                 fresh == {j \in 1..Len(hits) :
                              /\ hits[j].doc \notin Range(all_documents)
                              /\ \A k \in 1..(j - 1) : hits[k].doc # hits[j].doc}
                 new == SubseqAt(hits, fresh)
             IN  /\ all_documents' = all_documents \o [i \in 1..Len(new) |-> new[i].doc]
                 /\ all_metadatas' = all_metadatas \o [i \in 1..Len(new) |-> new[i].meta] ]_vars

C7_Witness ==
    /\ s_pc = "recall"
    /\ qi = 3
    /\ Len(all_documents) = 2
    /\ Len(results) = 2
    /\ results[2].doc = all_documents[1]
    /\ results[2].meta # all_metadatas[1]
    /\ results[1].doc = all_documents[2]

(***************************************************************************)
(* Claims about the store and ingestion.                                   *)
(***************************************************************************)

\* the chunk indexes of document d that ingestion is meant to store
Eligible(d) ==
    IF d = "none" THEN {}
    ELSE {i \in 0..(Len(ChunksOf[d]) - 1) : Len(ChunksOf[d][i + 1]) >= 10}

\* the chunk indexes the store holds for a filename
StoredOf(f) == {r.chunk_index : r \in {x \in store : x.source = f}}

\* C8: over any sequence of process_file and delete_file operations with
\* embedding and store-write failures, every filename get_existing_files
\* reports has all the chunks of its document stored, never a strict subset,
\* and a process_file that leaves chunks of its document unstored reports
\* failure.
C8_AllOrNothing ==
    /\ \A f \in get_existing_files(store, TRUE) : StoredOf(f) = Eligible(doc_of[f])
    /\ (last_op.kind = "process_file" /\ StoredOf(last_op.file) # Eligible(last_op.doc))
           => ~i_ret.ok

\* no scored chunk is above the threshold
NoneAbove == \A i \in 1..Len(scored_docs) : scored_docs[i].score <= -10

Warnings(logs) ==
    SelectSeq(logs, LAMBDA l : \E i \in 1..Len(expanded_queries) :
                                   l = WarningLog(expanded_queries[i]))

\* C12: in MedicalSearchEngine._multi_recall a variant whose embedding or
\* store query fails is skipped (it adds no chunk), the variants after it are
\* still processed (the loop ends only after the last variant), and the
\* diagnostic logs gain exactly one warning line for it, and none for a
\* variant that did not fail.
C12_FailedVariantWarned ==
    /\ [](impl = "engine" /\ s_pc = "recalled" => qi = Len(expanded_queries) + 1)
    /\ [][ (impl = "engine" /\ qi' = qi + 1) =>
             IF recall_status' \in {"embed_fail", "query_fail"}
             THEN /\ all_documents' = all_documents
                  /\ all_metadatas' = all_metadatas
                  /\ debug_logs' = Append(debug_logs, WarningLog(expanded_queries[qi]))
             ELSE Warnings(debug_logs') = Warnings(debug_logs) ]_vars

(***************************************************************************)
(* Claims about the query expansion.                                       *)
(***************************************************************************)

\* C13: expand(query, count) returns a sequence whose first element is the
\* original, unmodified query, followed by at most count variants (length
\* between 1 and count + 1); when the model call raises or its response is
\* malformed it returns exactly [query].
C13_ExpandShape ==
    s_pc = "expanded" =>
        /\ Len(expanded_queries) >= 1
        /\ Len(expanded_queries) <= count + 1
        /\ expanded_queries[1] = query
        /\ ~expander_out.ok => expanded_queries = <<query>>

C13_Witness ==
    /\ s_pc = "expanded"
    /\ impl = "engine"
    /\ count = 2
    /\ Len(expanded_queries) = 3
    /\ Len(CleanQueries(Split(Strip(expander_out.content), <<"\n">>))) = 4
    /\ query # Strip(query)

DigitChars == {"0", "1", "2", "3", "4", "5", "6", "7", "8", "9"}

\* a line without its leading "<number>. " enumeration, as the claim reads it
RECURSIVE LeadingDigits(_)
LeadingDigits(l) ==
    IF l # <<>> /\ Head(l) \in DigitChars THEN 1 + LeadingDigits(Tail(l)) ELSE 0

WithoutEnumeration(line) ==
    LET l == Strip(line)
        d == LeadingDigits(l)
    IN  IF d > 0 /\ Len(l) > d /\ l[d + 1] = "."
        THEN Strip(SubSeq(l, d + 2, Len(l)))
        ELSE l

\* C14: every non-blank line of the model output yields a variant equal to
\* that line with only a leading "<number>. " prefix removed, the text after
\* the prefix kept in full, periods included; blank lines yield no variant,
\* so no returned variant is the empty string.
C14_EnumerationStripped ==
    (s_pc = "expanded" /\ expander_out.ok) =>
        LET lines == Split(Strip(expander_out.content), <<"\n">>)
            nonblank == SelectSeq(lines, LAMBDA l : Strip(l) # <<>>)
        IN  /\ Tail(expanded_queries)
                   = Take([i \in 1..Len(nonblank) |-> WithoutEnumeration(nonblank[i])], count)
            /\ \A i \in 2..Len(expanded_queries) : expanded_queries[i] # <<>>

(***************************************************************************)
(* Claims about the reranker.                                              *)
(***************************************************************************)

\* C15: rerank returns a permutation of its input (document, score,
\* metadata) triples in descending score order, strictly descending when all
\* scores are distinct, triples of equal score keeping their recall order; an
\* empty document list gives an empty result.
C15_RerankStablePermutation ==
    s_pc = "reranked" =>
        LET n == Len(all_documents)
            triple(i) == [doc |-> all_documents[i], score |-> scores[i],
                          meta |-> all_metadatas[i]]
        IN  /\ Len(scored_docs) = n
            /\ \E pi \in Permutations(1..n) :
                /\ \A j \in 1..n : scored_docs[j] = triple(pi[j])
                /\ \A j, k \in 1..n :
                       j < k => \/ scores[pi[j]] > scores[pi[k]]
                                \/ scores[pi[j]] = scores[pi[k]] /\ pi[j] < pi[k]
            /\ (\A i, j \in 1..n : i # j => scores[i] # scores[j])
                   => \A j \in 1..(n - 1) : scored_docs[j].score > scored_docs[j + 1].score
            /\ all_documents = <<>> => scored_docs = <<>>

C15_Witness ==
    /\ s_pc = "reranked"
    /\ Len(all_documents) = 3
    /\ scores[1] < scores[2]
    /\ scores[2] = scores[3]
    /\ all_metadatas[2] # all_metadatas[3]
    /\ scored_docs[1].meta = all_metadatas[2]

(***************************************************************************)
(* Claims about the chunker.                                               *)
(***************************************************************************)

\* the number of '#' a line starts with
RECURSIVE LeadingHashes(_)
LeadingHashes(l) == IF l # <<>> /\ Head(l) = "#" THEN 1 + LeadingHashes(Tail(l)) ELSE 0

NestedHeadings == << <<"#", "A">>, <<"#", "#", "B">>, <<"#", "#", "C">>, <<"x", "y">> >>

\* C16: in split_smart, after a heading line of level L with title T the
\* heading stack is the first min(previous length, L - 1) entries of the
\* previous stack followed by T; so for the headings #A, ##B, ##C the section
\* path of a chunk emitted for content under C is "A > C".
C16_HeadingStack ==
    /\ [][ (c_impl = "processor" /\ c_li' = c_li + 1
              /\ StartsWith(Strip(c_lines[c_li]), <<"#">>)) =>
             LET stripped == Strip(c_lines[c_li])
                 L == LeadingHashes(stripped)
                 T == HeadingTitle(stripped)
             IN  current_headers'
                    = Append(SubSeq(current_headers, 1, Min(Len(current_headers), L - 1)), T)
         ]_vars
    /\ [](  (c_pc = "done" /\ c_impl = "processor" /\ c_lines = NestedHeadings) =>
              /\ chunks # <<>>
              /\ \A k \in 1..Len(chunks) :
                     StartsWith(chunks[k],
                                SectionOpen \o <<"A", " ", ">", " ", "C">> \o SectionClose) )

C16_Witness ==
    /\ c_pc = "done"
    /\ c_impl = "processor"
    /\ c_lines = NestedHeadings
    /\ c_size = 3
    /\ Len(chunks) = 2

\* the lines of a chunk below its section annotation
BodyLines(chunk) ==
    Split(SubSeq(chunk, Find(chunk, <<"\n">>) + 1, Len(chunk)), <<"\n">>)

\* the lines of the k-th chunk without those repeated from the chunk before
FreshLines(k) ==
    LET body == BodyLines(chunks[k]) IN SubSeq(body, carried[k] + 1, Len(body))

RECURSIVE Concat(_)
Concat(seqs) == IF seqs = <<>> THEN <<>> ELSE Head(seqs) \o Concat(Tail(seqs))

\* C17: for any text, chunk_size and overlap_lines, every input line, heading
\* or body, is in at least one emitted chunk, and the chunks without their
\* section annotation and without the lines repeated from the chunk before,
\* one after the other, are the input lines in order.
C17_NoLineLost ==
    c_pc = "done" =>
        /\ \A i \in 1..Len(c_lines) :
               \E k \in 1..Len(chunks) : c_lines[i] \in Range(BodyLines(chunks[k]))
        /\ Concat([k \in 1..Len(chunks) |-> FreshLines(k)]) = c_lines

C17_Witness ==
    /\ c_pc = "done"
    /\ c_impl = "processor"
    /\ c_overlap = 1
    /\ Len(chunks) = 3
    /\ carried[2] = 1
    /\ \E i \in 1..Len(c_lines) : StartsWith(c_lines[i], <<"#">>)
    /\ \E i \in 1..Len(c_lines) : c_lines[i] = <<>>

\* C18: for the empty text, split_smart and split_markdown_smart return an
\* empty chunk sequence.
C18_EmptyTextNoChunk == (c_pc = "done" /\ c_text = <<>>) => chunks = <<>>

\* C19: in split_smart, right after a chunk was emitted because the
\* cumulative length exceeded chunk_size, the buffer holds exactly the last
\* min(overlap_lines, n) lines of the n-line emitted buffer (none when
\* overlap_lines = 0) and the cumulative length is the sum of their lengths,
\* for every overlap_lines >= 0.
C19_OverlapReset ==
    [][ (c_impl = "processor" /\ c_li' = c_li + 1 /\ Len(chunks') = Len(chunks) + 1) =>
          LET buf == Append(current_chunk, c_lines[c_li])
              n == Len(buf)
              m == Min(c_overlap, n)
          IN  /\ current_chunk' = SubSeq(buf, n - m + 1, n)
              /\ current_length' = SumLen(current_chunk')
      ]_vars

\* C20: when get_existing_files already reports the filename, process_file
\* returns (False, 'EXIST') and makes no embedding call and no store write:
\* the store is unchanged.
C20_ExistUntouched ==
    [][ (ops' = ops + 1 /\ last_op'.kind = "process_file"
           /\ last_op'.file \in last_op'.listed) =>
          /\ i_ret' = [ok |-> FALSE, info |-> "EXIST", count |-> 0]
          /\ embed_log' = <<>>
          /\ add_log' = <<>>
          /\ store' = store
          /\ next_id' = next_id
      ]_vars

C20_Witness ==
    /\ last_op.kind = "process_file"
    /\ last_op.file \in last_op.listed
    /\ last_op.doc = "long"
    /\ doc_of[last_op.file] = "small"
    /\ i_ret.info = "EXIST"
    /\ StoredOf(last_op.file) = {0}

(***************************************************************************)
(* Claims about ingestion results.                                         *)
(***************************************************************************)

IngestKinds == {"process_file", "save_uploaded_file"}

\* C21: ingesting the empty document under a filename not yet in the store
\* returns (False, 'EMPTY'), not a success count and not an error message,
\* and stores nothing.
C21_EmptySentinel ==
    [][ (ops' = ops + 1 /\ last_op'.kind \in IngestKinds /\ last_op'.doc = "empty"
           /\ last_op'.file \notin get_existing_files(store, TRUE)) =>
          /\ i_ret' = [ok |-> FALSE, info |-> "EMPTY", count |-> 0]
          /\ store' = store
      ]_vars

\* C22: when an ingestion succeeds, the count it returns is the number of
\* chunk records this call wrote to the store under that filename, for
\* process_file and for save_uploaded_file; a chunk shorter than 10
\* characters is never stored and never counted.
C22_CountIsStored ==
    [][ (ops' = ops + 1 /\ last_op'.kind \in IngestKinds) =>
          LET written == store' \ store
              raw == IF last_op'.kind = "process_file" THEN ChunksOf[last_op'.doc]
                     ELSE ChunksOfApp[last_op'.doc]
          IN  /\ \A r \in written : r.source = last_op'.file /\ Len(raw[r.chunk_index + 1]) >= 10
              /\ i_ret'.ok => i_ret'.count = Cardinality(written)
      ]_vars

\* the chunk indexes of the add_chunks calls of `log` that succeeded
Committed(log) ==
    UNION { Range(log[b].chunks) : b \in {x \in 1..Len(log) : log[x].ok} }

\* C23: when add_chunks fails for a batch during process_file, the ingestion
\* stops at once and returns (False, error message): no later chunk is
\* embedded (a batch that failed inside the loop ends with the chunk embedded
\* last) or written, nothing of the failed batch is kept, and the batches
\* committed earlier in the same call stay in the store.
C23_AddFailureStops ==
    [][ (ops' = ops + 1 /\ last_op'.kind = "process_file"
           /\ \E b \in 1..Len(add_log') : ~add_log'[b].ok) =>
          LET n == Len(add_log')
              failed == add_log'[n]
          IN  /\ \A b \in 1..(n - 1) : add_log'[b].ok
              /\ ~failed.ok
              /\ i_ret' = [ok |-> FALSE, info |-> "ERROR", count |-> 0]
              /\ Len(failed.chunks) >= BATCH_SIZE
                     => Last(embed_log').chunk = Last(failed.chunks)
              /\ {r.chunk_index : r \in store' \ store} = Committed(add_log')
              /\ Range(failed.chunks) \cap Committed(add_log') = {}
              /\ store \subseteq store'
      ]_vars

C23_Witness ==
    /\ last_op.kind = "process_file"
    /\ last_op.doc = "long"
    /\ Len(add_log) = 2
    /\ add_log[1].ok
    /\ ~add_log[2].ok
    /\ Len(add_log[2].chunks) = 1
    /\ StoredOf(last_op.file) = 0..(BATCH_SIZE - 1)
    /\ i_ret.info = "ERROR"

\* the chunk indexes an ingestion of raw_chunks has to store, in chunker
\* order: those of length >= 10 whose embedding did not fail
Expected(raw_chunks, log) ==
    LET failed == {log[k].chunk : k \in {x \in 1..Len(log) : ~log[x].ok}}
    IN  SelectSeq([i \in 1..Len(raw_chunks) |-> i - 1],
                  LAMBDA i : Len(raw_chunks[i + 1]) >= MinChunkLen /\ i \notin failed)

\* C24: in an ingestion (process_file or save_uploaded_file) where embedding
\* a chunk fails and no store write fails, only that chunk is skipped: every
\* other chunk of length >= 10 is embedded and stored exactly once, in
\* chunker order, in batches of at most BATCH_SIZE records, and the
\* ingestion reports success.
C24_EmbedFailureSkipsChunk ==
    [][ (ops' = ops + 1 /\ last_op'.kind \in IngestKinds
           /\ i_ret'.info \notin {"EXIST", "EMPTY"}
           /\ (\E k \in 1..Len(embed_log') : ~embed_log'[k].ok)
           /\ (\A b \in 1..Len(add_log') : add_log'[b].ok)) =>
          LET raw == IF last_op'.kind = "process_file" THEN ChunksOf[last_op'.doc]
                     ELSE ChunksOfApp[last_op'.doc]
              expected == Expected(raw, embed_log')
          IN  /\ i_ret'.ok
              /\ Concat([b \in 1..Len(add_log') |-> add_log'[b].chunks]) = expected
              /\ \A b \in 1..Len(add_log') : Len(add_log'[b].chunks) <= BATCH_SIZE
              /\ {r.chunk_index : r \in store' \ store} = Range(expected)
              /\ Cardinality(store' \ store) = Len(expected)
              /\ \A r \in store' \ store : r.source = last_op'.file
      ]_vars

\* q is p with entries appended at the end
Extends(q, p) == Len(q) >= Len(p) /\ SubSeq(q, 1, Len(p)) = p

\* C25: the stored session history is append-only: no step changes or removes
\* an entry; a question appends its user turn when it arrives, the steps of
\* the loop that do not end it append nothing to the history (the reply and
\* the Observation go to the per-question conversation), and the step that
\* ends the handling of the question appends the final answer, so that the
\* history ends with the user turn followed by the assistant's answer.
C25_HistoryAppendOnly ==
    [][ /\ Extends(session_messages', session_messages)
        /\ (pc = "idle" /\ pc' = "loop")
               => /\ session_messages' = Append(session_messages, Msg("user", prompt'))
                  /\ messages' = BuildMessages(session_messages', prompt')
        /\ (pc = "loop" /\ pc' = "loop")
               => /\ session_messages' = session_messages
                  /\ Extends(messages', Append(messages, Msg("assistant", ai_content')))
        /\ (pc = "loop" /\ pc' # "loop")
               => /\ Last(session_messages) = Msg("user", prompt)
                  /\ final_answer' # <<>>
                  /\ session_messages' = Append(session_messages, Msg("assistant", final_answer'))
      ]_vars

\* C26: after a process_file call for a filename failed partway with at least
\* one batch committed, and until delete_file removed that filename,
\* get_existing_files reports it and every process_file call for it returns
\* 'EXIST' and writes nothing.
C26_PartialStaysPartial ==
    /\ [](\A f \in partial : f \in get_existing_files(store, TRUE))
    /\ [][ (ops' = ops + 1 /\ last_op'.kind = "process_file" /\ last_op'.file \in partial) =>
             /\ i_ret'.info = "EXIST"
             /\ store' = store
         ]_vars

\* C27: a step of the loop appends the synthetic 'already searched'
\* Observation only if an earlier step of the same run executed a search
\* with the keyword this step extracts; the first retrieval directive of a
\* question never gets it.
C27_RepeatNeedsEarlierSearch ==
    [][ (chat_calls' = chat_calls + 1 /\ pc' # "crashed"
           /\ Last(messages') = Msg("user", AlreadySearchedObs)) =>
          /\ search_calls > 0
          /\ last_action = ExtractKeyword(ai_content')
      ]_vars

\* C28: a step whose model reply holds both a retrieval marker and 'Final
\* Answer' first handles the retrieval directive (the search runs unless the
\* no-repeat guard applies, and the Observation turn is appended after the
\* reply) and then ends the loop in the same step with the final answer; no
\* model call follows, so the appended Observation is never sent.
C28_RetrieveThenFinal ==
    /\ [][ (chat_calls' = chat_calls + 1 /\ pc' # "crashed"
              /\ HasRetrieveMarker(ai_content') /\ HasFinalAnswer(ai_content')) =>
             LET keyword == ExtractKeyword(ai_content')
                 text == ExtractFinalAnswer(ai_content')
                 obs == Last(messages')
             IN  /\ Len(messages') = Len(messages) + 2
                 /\ messages'[Len(messages) + 1] = Msg("assistant", ai_content')
                 /\ obs.role = "user"
                 /\ IF keyword = last_action
                    THEN /\ search_calls' = search_calls
                         /\ obs.content = AlreadySearchedObs
                         /\ last_action' = last_action
                    ELSE /\ search_calls' = search_calls + 1
                         /\ StartsWith(obs.content, ObservationPrefix)
                         /\ last_action' = keyword
                 /\ pc' = "done"
                 /\ step' = step
                 /\ final_answer' # <<>>
                 /\ text # <<>> => (final_answer' = text /\ status' = "complete")
                 /\ session_messages' = Append(session_messages, Msg("assistant", final_answer'))
         ]_vars
    /\ [][ pc = "done" => (chat_calls' = chat_calls /\ messages' = messages) ]_vars

C28_Witness ==
    /\ pc = "done"
    /\ HasRetrieveMarker(ai_content) /\ HasFinalAnswer(ai_content)
    /\ chat_calls = 2
    /\ search_calls = 1
    /\ Last(messages) = Msg("user", AlreadySearchedObs)
    /\ final_answer = <<"y">>
    /\ status = "complete"

\* C29: the two chunkers are equivalent: for every text and chunk size,
\* split_markdown_smart(text, size) of app.py and split_smart(text, size, 3)
\* of MarkdownProcessor return the same chunk sequence, section path
\* included.
C29_ChunkersEquivalent ==
    c_pc = "done" =>
        /\ split_markdown_smart(c_text, c_size) = split_smart(c_text, c_size, 3)
        /\ split_markdown_smart(c_text, CHUNK_SIZE) = split_smart(c_text, CHUNK_SIZE, 3)

====
